---- MODULE Spec2Model ----
(***************************************************************************)
(* News-Analysis-Agent: the LangGraph pipelines of the repository.         *)
(*                                                                         *)
(*   - news_agent/agent.py + news_agent/utils/{nodes,tools,state}.py: the  *)
(*     five-stage pipeline gather -> clean -> score -> extract -> report   *)
(*     (specification Spec);                                               *)
(*   - main.py: the three-stage pipeline scrape -> analyze -> report, the  *)
(*     one whose state carries an `errors` list (specification SpecMain).  *)
(*                                                                         *)
(* The pipeline state is a Python dict: it is modelled as a function from  *)
(* keys to values, so that an absent key and an empty value differ.        *)
(* Python strings are TLA+ strings ("" is the empty string); floats are    *)
(* counted in tenths (7.0 is 70); an article's text is abstracted to its   *)
(* origin and its length, the only things the code looks at.               *)
(***************************************************************************)
EXTENDS Integers, Sequences, FiniteSets, TLC

VARIABLES
    state,      \* the dict the graph threads through the nodes
    node,       \* the graph node the orchestrator is at
    trace,      \* the nodes the orchestrator has invoked, in order
    calls,      \* per node run so far, what its collaborator calls did, in call order
    faults,     \* collaborator calls so far that did not take the nominal path
    prompts,    \* the blocks given to REPORT_GENERATION_PROMPT, per report call
    cleaning_calls, \* the urls of the articles stage 2 called the cleaning model for
    exit_status \* what main() returned to exit(); -1 while the process runs

vars == <<state, node, trace, calls, faults, prompts, cleaning_calls, exit_status>>

----------------------------------------------------------------------------
(* Bounds of the model *)

MaxSources == 1     \* longest caller-supplied source list
MaxEntries == 6     \* most entries one feed serves
MaxFaults == 1      \* most non-nominal collaborator outcomes in one run

(* Constants of the program *)

PerSourceCap == 5   \* feed.entries[:5]
MaxArticles == 8    \* state["raw_articles"][:8]
MinTextLen == 200   \* len(content['text']) > 200

----------------------------------------------------------------------------
(* Python helpers *)

Min(a, b) == IF a < b THEN a ELSE b

\* seq[:n]
Take(s, n) == SubSeq(s, 1, Min(n, Len(s)))

\* d.get(k, default)
Get(d, k, default) == IF k \in DOMAIN d THEN d[k] ELSE default

\* the partial update a node returns, merged into the state by key
Merge(d, update) == update @@ d

EmptyDict == [k \in {} |-> 0]

RECURSIVE Join(_, _)
\* sep.join(parts)
Join(parts, sep) ==
    IF parts = <<>> THEN ""
    ELSE IF Len(parts) = 1 THEN parts[1]
    ELSE parts[1] \o sep \o Join(Tail(parts), sep)

\* str(x) of a float held in tenths
FloatStr(t) ==
    IF t < 0 THEN "-" \o ToString((-t) \div 10) \o "." \o ToString((-t) % 10)
    ELSE ToString(t \div 10) \o "." \o ToString(t % 10)

IsPrefix(s, t) == Len(s) <= Len(t) /\ SubSeq(t, 1, Len(s)) = s

----------------------------------------------------------------------------
(* The graph of agent.py *)

Nodes == {"gather_sources", "clean_content", "evaluate_trust",
          "extract_facts", "generate_report"}

\* the edges with the score and extract stages added the wrong way round
EdgesMisordered == {<<"START", "gather_sources">>,
                    <<"gather_sources", "clean_content">>,
                    <<"clean_content", "extract_facts">>,
                    <<"extract_facts", "evaluate_trust">>,
                    <<"evaluate_trust", "generate_report">>,
                    <<"generate_report", "END">>}

Edges == {<<"START", "gather_sources">>,
          <<"gather_sources", "clean_content">>,
          <<"clean_content", "evaluate_trust">>,
          <<"evaluate_trust", "extract_facts">>,
          <<"extract_facts", "generate_report">>,
          <<"generate_report", "END">>}

\* the graph of main.py
MainNodes == {"scrape", "analyze", "report"}

MainEdges == {<<"START", "scrape">>,
              <<"scrape", "analyze">>,
              <<"analyze", "report">>,
              <<"report", "END">>}

\* the node the compiled graph runs after n
Successor(edges, n) == CHOOSE m \in {e[2] : e \in edges} : <<n, m>> \in edges

\* the orchestrator moves on from n: the next node is invoked, or the run ends
Advance(edges, n) ==
    /\ node' = Successor(edges, n)
    /\ trace' = IF Successor(edges, n) # "END"
                THEN Append(trace, Successor(edges, n))
                ELSE trace

----------------------------------------------------------------------------
(* Collaborators: feeds, pages, the model *)

default_sources == <<"https://news.google.com/rss/search?q=technology",
                     "https://feeds.bbci.co.uk/news/technology/rss.xml",
                     "https://rss.nytimes.com/services/xml/rss/nyt/Technology.xml">>

UserFeeds == {"https://a.example/rss", "https://b.example/rss"}

SourceLists == UNION {[1..n -> UserFeeds] : n \in 0..MaxSources}

\* what feedparser.parse finds at a feed: a failed fetch parses to no entries
EntryCounts == {3, MaxEntries}
\* nolink: the position of an entry that carries no link (0: every entry has one)
FeedResults ==
    {[ok |-> FALSE, n |-> 0, nolink |-> 0]}
    \cup {[ok |-> TRUE, n |-> c, nolink |-> 0] : c \in EntryCounts}
    \cup {[ok |-> TRUE, n |-> 3, nolink |-> 2]}

\* entry k of the feed at feed_url
Entry(feed_url, k) ==
    [title |-> "entry " \o ToString(k),
     link |-> feed_url \o "/" \o ToString(k),
     published |-> "2024-01-0" \o ToString(k)]

\* the same entry without a link element
EntryNoLink(feed_url, k) ==
    [title |-> "entry " \o ToString(k),
     published |-> "2024-01-0" \o ToString(k)]

Entries(feed_url, result) ==
    [k \in 1..result.n |->
        IF k = result.nolink THEN EntryNoLink(feed_url, k) ELSE Entry(feed_url, k)]

\* what the page at a url holds: unreachable, or an article with a text
PageLens == {MinTextLen - 1, MinTextLen, MinTextLen + 1}
PageResults == {[ok |-> FALSE, len |-> 0]} \cup {[ok |-> TRUE, len |-> n] : n \in PageLens}
NominalPage == [ok |-> TRUE, len |-> MinTextLen + 1]

\* llm.invoke: raises, or returns a reply with this content
Raise == [raised |-> TRUE, content |-> "quota exceeded"]
Reply(text) == [raised |-> FALSE, content |-> text]

CleanReply == Reply("cleaned text")
EvalGood == Reply("{\"score\": 8.5, \"reasoning\": \"cited\", \"red_flags\": [], \"strengths\": []}")
EvalReplies ==
    {EvalGood,
     Reply("{\"score\": 15.0, \"reasoning\": \"great\", \"red_flags\": [], \"strengths\": []}"),
     Reply("{\"reasoning\": \"cannot score\"}"),
     Reply("[8.5, \"cited\"]"),
     Reply("I would rate this article 8 out of 10.")}
FactsReply == Reply("1. A fact")
ReportGood == Reply("## Executive Summary")
ReportReplies == {ReportGood, Reply("")}

----------------------------------------------------------------------------
(* tools.py *)

\* the inner loop without its [:5]
StubsUncapped(feed_url, entries) ==
    [k \in 1..Len(entries) |->
        [title |-> entries[k].title,
         link |-> Get(entries[k], "link", ""),
         published |-> entries[k].published,
         source |-> feed_url]]

\* the inner loop of fetch_rss_feeds: the stubs of feed.entries[:5]
Stubs(feed_url, entries) ==
    [k \in 1..Len(Take(entries, PerSourceCap)) |->
        [title |-> entries[k].title,
         link |-> Get(entries[k], "link", ""),
         published |-> entries[k].published,
         source |-> feed_url]]

RECURSIVE fetch_rss_feeds(_, _)
\* feed_urls: the sources; results[k]: what feedparser.parse finds at feed_urls[k]
fetch_rss_feeds(feed_urls, results) ==
    IF feed_urls = <<>> THEN <<>>
    ELSE Stubs(Head(feed_urls), Entries(Head(feed_urls), Head(results)))
         \o fetch_rss_feeds(Tail(feed_urls), Tail(results))

\* page: what Article(url).download()/parse() meets; no page is behind an empty url
scrape_article_content(url, page) ==
    IF page.ok /\ url # ""
    THEN [title |-> "Title of " \o url,
          text |-> [origin |-> "page", len |-> page.len],
          authors |-> <<>>,
          publish_date |-> "None",
          url |-> url]
    ELSE [error |-> "download failed", url |-> url]

----------------------------------------------------------------------------
(* nodes.py *)

\* a Python value with its type: what .get() may be called on
PyDict(d) == [type |-> "dict", value |-> d]

\* the cost of a collaborator outcome against the budget of non-nominal outcomes
Cost(nominal) == IF nominal THEN 0 ELSE 1

\* json.loads on the replies of the model: a dict, another JSON value, or
\* JSONDecodeError
json_loads(s) ==
    CASE s = "{\"score\": 8.5, \"reasoning\": \"cited\", \"red_flags\": [], \"strengths\": []}" ->
            PyDict([score |-> 85, reasoning |-> "cited", red_flags |-> <<>>, strengths |-> <<>>])
      [] s = "{\"score\": 15.0, \"reasoning\": \"great\", \"red_flags\": [], \"strengths\": []}" ->
            PyDict([score |-> 150, reasoning |-> "great", red_flags |-> <<>>, strengths |-> <<>>])
      [] s = "{\"reasoning\": \"cannot score\"}" ->
            PyDict([reasoning |-> "cannot score"])
      [] s = "[8.5, \"cited\"]" ->
            [type |-> "list", value |-> <<"8.5", "cited">>]
      [] OTHER -> [type |-> "JSONDecodeError", value |-> s]

RECURSIVE Outcomes(_, _, _, _)
\* the outcome lists of n collaborator calls of which at most k leave the nominal path
Outcomes(n, k, nominal, faulty) ==
    IF n = 0 THEN {<<>>}
    ELSE {<<nominal>> \o rest : rest \in Outcomes(n - 1, k, nominal, faulty)}
         \cup (IF k > 0
               THEN {<<f>> \o rest : f \in faulty, rest \in Outcomes(n - 1, k - 1, nominal, faulty)}
               ELSE {})

NFaults(outcomes, nominal) == Cardinality({k \in 1..Len(outcomes) : outcomes[k] # nominal})

\* the feeds that serve an entry without a link
MalformedFeeds(results) == Cardinality({k \in DOMAIN results : results[k].nolink # 0})

\* Node 1: gather_news_sources. results[k]: what feedparser.parse finds at source k
GatherNewsSources ==
    /\ node = "gather_sources"
    /\ LET sources == Get(state, "sources", default_sources)
       IN \E results \in [1..Len(sources) -> FeedResults] :
            /\ faults + MalformedFeeds(results) <= MaxFaults
            /\ state' = Merge(state, [sources |-> sources,
                                      raw_articles |-> fetch_rss_feeds(sources, results)])
            /\ calls' = Merge(calls, [gather_sources |-> results])
            /\ faults' = faults + MalformedFeeds(results)
    /\ Advance(Edges, "gather_sources")
    /\ UNCHANGED <<prompts, cleaning_calls, exit_status>>

\* stage 2, per article: what the page fetch and the cleaning call do
ScrapeNominal == [page |-> NominalPage, response |-> CleanReply]
ScrapeFaulty ==
    {[page |-> p, response |-> CleanReply] : p \in PageResults \ {NominalPage}}
    \cup {[page |-> NominalPage, response |-> Raise]}

\* the loop body without the length test
CleanOneAnyLength(article, outcome) ==
    IF "link" \in DOMAIN article
    THEN LET content == scrape_article_content(article["link"], outcome.page)
         IN IF "text" \in DOMAIN content
            THEN IF outcome.response.raised
                 THEN <<content>>
                 ELSE <<[content EXCEPT !["text"] =
                            [origin |-> "llm", len |-> Len(outcome.response.content)]]>>
            ELSE <<>>
    ELSE <<>>

\* the loop body with an except branch that only logs
CleanOneDropping(article, outcome) ==
    IF "link" \in DOMAIN article
    THEN LET content == scrape_article_content(article["link"], outcome.page)
         IN IF "text" \in DOMAIN content /\ content["text"].len > MinTextLen
                /\ ~outcome.response.raised
            THEN <<[content EXCEPT !["text"] =
                       [origin |-> "llm", len |-> Len(outcome.response.content)]]>>
            ELSE <<>>
    ELSE <<>>

\* the body of the loop of scrape_and_clean: what one article adds to `cleaned`
CleanOne(article, outcome) ==
    IF "link" \in DOMAIN article
    THEN LET content == scrape_article_content(article["link"], outcome.page)
         IN IF "text" \in DOMAIN content /\ content["text"].len > MinTextLen
            THEN IF outcome.response.raised
                 THEN <<content>>
                 ELSE <<[content EXCEPT !["text"] =
                            [origin |-> "llm", len |-> Len(outcome.response.content)]]>>
            ELSE <<>>
    ELSE <<>>

RECURSIVE scrape_and_clean(_, _)
\* the list `cleaned` after the loop over articles_to_process
scrape_and_clean(articles, outcomes) ==
    IF articles = <<>> THEN <<>>
    ELSE CleanOne(Head(articles), Head(outcomes))
         \o scrape_and_clean(Tail(articles), Tail(outcomes))

\* the body of the loop of scrape_and_clean: the llm.invoke calls one article causes
InvokedFor(article, outcome) ==
    IF "link" \in DOMAIN article
    THEN LET content == scrape_article_content(article["link"], outcome.page)
         IN IF "text" \in DOMAIN content /\ content["text"].len > MinTextLen
            THEN <<content["url"]>>
            ELSE <<>>
    ELSE <<>>

RECURSIVE cleaning_invocations(_, _)
\* the llm.invoke calls of the loop over articles_to_process
cleaning_invocations(articles, outcomes) ==
    IF articles = <<>> THEN <<>>
    ELSE InvokedFor(Head(articles), Head(outcomes))
         \o cleaning_invocations(Tail(articles), Tail(outcomes))

\* the articles without the [:8]
articles_to_process_all(raw_articles) == raw_articles

\* state["raw_articles"][:8]
articles_to_process(raw_articles) == Take(raw_articles, MaxArticles)

\* Node 2
ScrapeAndClean ==
    /\ node = "clean_content"
    /\ LET articles == articles_to_process(state["raw_articles"])
       IN \E outcomes \in Outcomes(Len(articles), MaxFaults - faults,
                                   ScrapeNominal, ScrapeFaulty) :
            /\ state' = Merge(state, [cleaned_articles |-> scrape_and_clean(articles, outcomes)])
            /\ calls' = Merge(calls, [clean_content |-> outcomes])
            /\ faults' = faults + NFaults(outcomes, ScrapeNominal)
            /\ cleaning_calls' = cleaning_invocations(articles, outcomes)
    /\ Advance(Edges, "clean_content")
    /\ UNCHANGED <<prompts, exit_status>>

\* the score entry Node 3 appends for one article, given what llm.invoke did
ScoreEntry(article, response) ==
    IF response.raised
    THEN [article |-> article["title"],
          evaluation |-> PyDict([score |-> 50, reasoning |-> "Error during evaluation"])]
    ELSE LET parsed == json_loads(response.content)
             score_data ==
                 IF parsed.type = "JSONDecodeError"
                 THEN PyDict([score |-> 70,
                              reasoning |-> Take(response.content, 200),
                              red_flags |-> <<>>,
                              strengths |-> <<>>])
                 ELSE parsed
         IN [article |-> article["title"],
             url |-> Get(article, "url", ""),
             evaluation |-> score_data]

\* the loop body with an except branch that only logs, as in extract_key_facts
EvaluateOneDropping(article, response) ==
    IF response.raised THEN <<>> ELSE <<ScoreEntry(article, response)>>

\* the body of the loop of evaluate_trustworthiness: what one article adds to `scores`
EvaluateOne(article, response) == <<ScoreEntry(article, response)>>

RECURSIVE evaluate_trustworthiness(_, _)
\* the list `scores` after the loop over cleaned_articles
evaluate_trustworthiness(articles, responses) ==
    IF articles = <<>> THEN <<>>
    ELSE EvaluateOne(Head(articles), Head(responses))
         \o evaluate_trustworthiness(Tail(articles), Tail(responses))

\* Node 3
EvaluateTrustworthiness ==
    /\ node = "evaluate_trust"
    /\ \E responses \in Outcomes(Len(state["cleaned_articles"]), MaxFaults - faults,
                                 EvalGood, (EvalReplies \cup {Raise}) \ {EvalGood}) :
         /\ state' = Merge(state, [trustworthiness_scores |->
                           evaluate_trustworthiness(state["cleaned_articles"], responses)])
         /\ calls' = Merge(calls, [evaluate_trust |-> responses])
         /\ faults' = faults + NFaults(responses, EvalGood)
    /\ Advance(Edges, "evaluate_trust")
    /\ UNCHANGED <<prompts, cleaning_calls, exit_status>>

\* the loop body with a fallback entry in its except branch, as Node 3 has
ExtractOneFallback(article, response) ==
    <<[source |-> article["title"],
       url |-> Get(article, "url", ""),
       facts |-> IF response.raised THEN "Error during extraction" ELSE response.content]>>

\* the body of the loop of extract_key_facts: a failed call appends nothing
ExtractOne(article, response) ==
    IF response.raised
    THEN <<>>
    ELSE <<[source |-> article["title"],
            url |-> Get(article, "url", ""),
            facts |-> response.content]>>

RECURSIVE extract_key_facts(_, _)
\* the list `facts` after the loop over cleaned_articles
extract_key_facts(articles, responses) ==
    IF articles = <<>> THEN <<>>
    ELSE ExtractOne(Head(articles), Head(responses))
         \o extract_key_facts(Tail(articles), Tail(responses))

\* Node 4
ExtractKeyFacts ==
    /\ node = "extract_facts"
    /\ \E responses \in Outcomes(Len(state["cleaned_articles"]), MaxFaults - faults,
                                 FactsReply, {Raise}) :
         /\ state' = Merge(state, [extracted_facts |->
                           extract_key_facts(state["cleaned_articles"], responses)])
         /\ calls' = Merge(calls, [extract_facts |-> responses])
         /\ faults' = faults + NFaults(responses, FactsReply)
    /\ Advance(Edges, "extract_facts")
    /\ UNCHANGED <<prompts, cleaning_calls, exit_status>>

\* "\n\n".join of "### <source>\n<facts>"
FactsText(extracted_facts) ==
    Join([k \in 1..Len(extracted_facts) |->
             "### " \o extracted_facts[k]["source"] \o "\n" \o extracted_facts[k]["facts"]],
         "\n\n")

\* score['evaluation'].get('score', 'N/A'), formatted
ScoreStr(evaluation) ==
    IF "score" \in DOMAIN evaluation.value
    THEN FloatStr(evaluation.value["score"])
    ELSE "N/A"

\* "\n".join of "- <article>: <score>/10"
ScoresText(trustworthiness_scores) ==
    Join([k \in 1..Len(trustworthiness_scores) |->
             "- " \o trustworthiness_scores[k]["article"] \o ": "
                  \o ScoreStr(trustworthiness_scores[k]["evaluation"]) \o "/10"],
         "\n")

\* every evaluation has a .get: the comprehension of scores_text runs through
ScoresFormat(trustworthiness_scores) ==
    \A k \in 1..Len(trustworthiness_scores) :
        trustworthiness_scores[k]["evaluation"].type = "dict"

\* the report with an except branch that keeps the error message only
FinalReportNoFacts(facts_text, response) ==
    IF response.raised
    THEN "Error generating report: " \o response.content
    ELSE response.content

\* the report Node 5 settles on, given what llm.invoke did
FinalReport(facts_text, response) ==
    IF response.raised
    THEN "Error generating report: " \o response.content \o "\n\nRaw facts:\n" \o facts_text
    ELSE response.content

\* Node 5: the two blocks are built outside the try, the model call inside it
CreateFinalReport ==
    /\ node = "generate_report"
    /\ IF ScoresFormat(state["trustworthiness_scores"])
       THEN LET facts_text == FactsText(state["extracted_facts"])
                scores_text == ScoresText(state["trustworthiness_scores"])
            IN \E response \in IF faults < MaxFaults
                               THEN ReportReplies \cup {Raise} ELSE {ReportGood} :
                 /\ faults' = faults + Cost(response = ReportGood)
                 /\ calls' = Merge(calls, [generate_report |-> <<response>>])
                 /\ prompts' = Append(prompts, [facts |-> facts_text, scores |-> scores_text])
                 /\ state' = Merge(state, [final_report |-> FinalReport(facts_text, response)])
                 /\ Advance(Edges, "generate_report")
       ELSE \* AttributeError leaves the node and graph.invoke
            /\ node' = "RAISED"
            /\ UNCHANGED <<state, trace, calls, faults, prompts>>
    /\ UNCHANGED <<cleaning_calls, exit_status>>

\* graph.invoke(initial_state): the entry edge
Invoke ==
    /\ node = "START"
    /\ Advance(Edges, "START")
    /\ UNCHANGED <<state, calls, faults, prompts, cleaning_calls, exit_status>>

Init ==
    /\ state \in {EmptyDict} \cup {[sources |-> s] : s \in SourceLists}
    /\ node = "START"
    /\ trace = <<>>
    /\ calls = EmptyDict
    /\ faults = 0
    /\ prompts = <<>>
    /\ cleaning_calls = <<>>
    /\ exit_status = -1

Next ==
    \/ Invoke
    \/ GatherNewsSources
    \/ ScrapeAndClean
    \/ EvaluateTrustworthiness
    \/ ExtractKeyFacts
    \/ CreateFinalReport

Spec == Init /\ [][Next]_vars

----------------------------------------------------------------------------
(* main.py: the three-node pipeline whose state carries `errors` *)

MaxUrls == 3        \* longest url list handed to the graph

ScrapeLimit == 2    \* state["urls"][:2]

MainUrls == {"https://www.theverge.com/ai-artificial-intelligence",
             "https://techcrunch.com/category/artificial-intelligence/"}

UrlLists == UNION {[1..n -> MainUrls] : n \in 0..MaxUrls}

\* requests.get + raise_for_status + extract_clean_content on one url
ScrapeResults ==
    {[kind |-> "ok", text |-> "Article body"],
     [kind |-> "ok", text |-> ""],
     [kind |-> "RequestException", text |-> "timed out"],
     [kind |-> "Exception", text |-> "bad markup"]}

AnalysisReply == Reply("Main Topic: AI")

\* d[k] = v on an insertion-ordered dict, held as a list of items
DictPut(d, k, v) ==
    IF \E j \in 1..Len(d) : d[j].key = k
    THEN [j \in 1..Len(d) |-> IF d[j].key = k THEN [key |-> k, value |-> v] ELSE d[j]]
    ELSE Append(d, [key |-> k, value |-> v])

\* errors = []: the node starts its own list
StateErrorsFresh(st) == <<>>

\* errors = state.get("errors", [])
StateErrors(st) == Get(st, "errors", <<>>)

RECURSIVE ScrapeLoop(_, _, _, _)
\* the loop of scrape_node: the locals `scraped` and `errors` after it
ScrapeLoop(urls, outcomes, scraped, errs) ==
    IF urls = <<>> THEN [scraped |-> scraped, errors |-> errs]
    ELSE LET url == Head(urls)
             got == Head(outcomes)
         IN CASE got.kind = "ok" ->
                   ScrapeLoop(Tail(urls), Tail(outcomes),
                              DictPut(scraped, url, got.text), errs)
              [] got.kind = "RequestException" ->
                   ScrapeLoop(Tail(urls), Tail(outcomes),
                              DictPut(scraped, url, ""),
                              Append(errs, "Request error for " \o url \o ": " \o got.text))
              [] OTHER ->
                   ScrapeLoop(Tail(urls), Tail(outcomes),
                              DictPut(scraped, url, ""),
                              Append(errs, "Unexpected error scraping " \o url \o ": " \o got.text))

\* Node 1 of main.py
ScrapeNode ==
    /\ node = "scrape"
    /\ LET urls == Take(state["urls"], ScrapeLimit)
       IN \E outcomes \in [1..Len(urls) -> ScrapeResults] :
            LET after == ScrapeLoop(urls, outcomes, <<>>, StateErrors(state))
            IN state' = Merge(state, [scraped_content |-> after.scraped,
                                      errors |-> after.errors])
    /\ Advance(MainEdges, "scrape")
    /\ UNCHANGED <<calls, faults, prompts, cleaning_calls, exit_status>>

RECURSIVE AnalyzeLoop(_, _, _, _)
\* the loop of analyze_node: the locals `analyses` and `errors` after it
AnalyzeLoop(items, responses, analyses, errs) ==
    IF items = <<>> THEN [analyses |-> analyses, errors |-> errs]
    ELSE LET url == Head(items).key
             content == Head(items).value
             response == Head(responses)
         IN IF content = ""
            THEN AnalyzeLoop(Tail(items), Tail(responses), analyses, errs)
            ELSE IF response.raised
            THEN AnalyzeLoop(Tail(items), Tail(responses), analyses,
                             Append(errs, "Analysis error for " \o url \o ": " \o response.content))
            ELSE AnalyzeLoop(Tail(items), Tail(responses),
                             Append(analyses, response.content), errs)

\* Node 2 of main.py. init_ok: initialize_llm returned
AnalyzeNode ==
    /\ node = "analyze"
    /\ \E init_ok \in BOOLEAN :
         IF ~init_ok
         THEN state' = Merge(state,
                  [analyses |-> <<>>,
                   errors |-> Append(StateErrors(state),
                                     "LLM initialization failed: " \o Raise.content)])
         ELSE \E responses \in [1..Len(state["scraped_content"]) -> {AnalysisReply, Raise}] :
                LET after == AnalyzeLoop(state["scraped_content"], responses,
                                         <<>>, StateErrors(state))
                IN state' = Merge(state, [analyses |-> after.analyses,
                                          errors |-> after.errors])
    /\ Advance(MainEdges, "analyze")
    /\ UNCHANGED <<calls, faults, prompts, cleaning_calls, exit_status>>

\* Node 3 of main.py
ReportNode ==
    /\ node = "report"
    /\ IF Len(state["analyses"]) < 2
       THEN state' = Merge(state,
                [final_report |-> "Insufficient analyses to generate report. Need at least 2 successful analyses.",
                 errors |-> StateErrors(state)])
       ELSE \E response \in {ReportGood, Raise} :
              IF response.raised
              THEN state' = Merge(state,
                       [final_report |-> "Error generating report: " \o response.content,
                        errors |-> Append(StateErrors(state),
                                          "Report generation error: " \o response.content)])
              ELSE state' = Merge(state, [final_report |-> response.content,
                                          errors |-> StateErrors(state)])
    /\ Advance(MainEdges, "report")
    /\ UNCHANGED <<calls, faults, prompts, cleaning_calls, exit_status>>

\* graph.invoke(initial_state) of main(): the entry edge
InvokeMain ==
    /\ node = "START"
    /\ Advance(MainEdges, "START")
    /\ UNCHANGED <<state, calls, faults, prompts, cleaning_calls, exit_status>>

\* initial_state of main()
initial_state(urls) ==
    [urls |-> urls, scraped_content |-> <<>>, analyses |-> <<>>,
     final_report |-> "", errors |-> <<>>]

\* initial_state of main(), over the url lists of the model
InitMain ==
    /\ state \in {initial_state(u) : u \in UrlLists}
    /\ node = "START"
    /\ trace = <<>>
    /\ calls = EmptyDict
    /\ faults = 0
    /\ prompts = <<>>
    /\ cleaning_calls = <<>>
    /\ exit_status = -1

NextMain ==
    \/ InvokeMain
    \/ ScrapeNode
    \/ AnalyzeNode
    \/ ReportNode

SpecMain == InitMain /\ [][NextMain]_vars

----------------------------------------------------------------------------
(* main.py: the process, from main() to exit() *)

\* the urls main() analyses
main_urls == <<"https://www.theverge.com/ai-artificial-intelligence",
               "https://techcrunch.com/category/artificial-intelligence/">>

\* generate_pdf_report with its try/except removed
generate_pdf_report_unguarded(render_ok) ==
    IF render_ok
    THEN [raised |-> FALSE, filename |-> "news_analysis_report.pdf"]
    ELSE [raised |-> TRUE, filename |-> "None"]

\* generate_pdf_report: the file name, or None when anything in the rendering raised
generate_pdf_report(render_ok) ==
    IF render_ok
    THEN [raised |-> FALSE, filename |-> "news_analysis_report.pdf"]
    ELSE [raised |-> FALSE, filename |-> "None"]

\* main(), up to graph.invoke: load_environment raises ValueError without the key
LoadEnvironment ==
    /\ node = "main"
    /\ \E api_key \in {"", "key"} :
         /\ calls' = Merge(calls, [load_environment |-> api_key])
         /\ IF api_key = ""
            THEN /\ node' = "EXIT"
                 /\ exit_status' = 1
                 /\ UNCHANGED state
            ELSE /\ node' = "START"
                 /\ state' = initial_state(main_urls)
                 /\ UNCHANGED exit_status
    /\ UNCHANGED <<trace, faults, prompts, cleaning_calls>>

\* main(), after graph.invoke: print the report, render the pdf, return
MainReturn ==
    /\ node = "END"
    /\ \E render_ok \in BOOLEAN :
         LET pdf_file == generate_pdf_report(render_ok)
         IN /\ calls' = Merge(calls, [generate_pdf_report |-> pdf_file])
            /\ exit_status' = IF pdf_file.raised THEN 1 ELSE 0
    /\ node' = "EXIT"
    /\ UNCHANGED <<state, trace, faults, prompts, cleaning_calls>>

InitCli ==
    /\ state = EmptyDict
    /\ node = "main"
    /\ trace = <<>>
    /\ calls = EmptyDict
    /\ faults = 0
    /\ prompts = <<>>
    /\ cleaning_calls = <<>>
    /\ exit_status = -1

NextCli ==
    \/ LoadEnvironment
    \/ InvokeMain
    \/ ScrapeNode
    \/ AnalyzeNode
    \/ ReportNode
    \/ MainReturn

SpecCli == InitCli /\ [][NextCli]_vars

----------------------------------------------------------------------------
(* Reading the pipeline state *)

sources == Get(state, "sources", <<>>)
raw_articles == Get(state, "raw_articles", <<>>)
cleaned_articles == Get(state, "cleaned_articles", <<>>)
trustworthiness_scores == Get(state, "trustworthiness_scores", <<>>)
extracted_facts == Get(state, "extracted_facts", <<>>)
final_report == Get(state, "final_report", "")
errors == Get(state, "errors", <<>>)

\* node n was invoked and has returned
Returned(n) ==
    \E k \in 1..Len(trace) : trace[k] = n /\ (k < Len(trace) \/ node = "END")

\* the run is over: graph.invoke returned, or raised
Terminated == node \in {"END", "RAISED"}

StageOrder == <<"gather_sources", "clean_content", "evaluate_trust",
                "extract_facts", "generate_report">>

\* the state key each stage writes
StageKey == <<"raw_articles", "cleaned_articles", "trustworthiness_scores",
              "extracted_facts", "final_report">>

RECURSIVE IsSubsequence(_, _)
\* s is t with some elements left out, order kept
IsSubsequence(s, t) ==
    IF s = <<>> THEN TRUE
    ELSE IF t = <<>> THEN FALSE
    ELSE IF Head(s) = Head(t) THEN IsSubsequence(Tail(s), Tail(t))
    ELSE IsSubsequence(s, Tail(t))

\* the string e holds the string url
Mentions(e, url) ==
    \E a \in 1..Len(e) : a + Len(url) - 1 <= Len(e) /\ SubSeq(e, a, a + Len(url) - 1) = url

RECURSIVE InSourceBlocks(_, _, _)
\* the stubs' sources are runs of at most `room` of the first source, then of at
\* most PerSourceCap of each later source, in the order of the source list
InSourceBlocks(stub_sources, srcs, room) ==
    IF stub_sources = <<>> THEN TRUE
    ELSE IF srcs = <<>> THEN FALSE
    ELSE IF room > 0 /\ Head(stub_sources) = Head(srcs)
    THEN InSourceBlocks(Tail(stub_sources), srcs, room - 1)
    ELSE InSourceBlocks(stub_sources, Tail(srcs), PerSourceCap)

----------------------------------------------------------------------------
(* The claims *)

\* C1: every run of the five-stage pipeline ends by returning a state with
\* final_report set: no stage's exception leaves the orchestrator, whatever the
\* collaborators did, a stage-3 reply that is JSON but no object included.
C1_RunAlwaysReturnsReport ==
    /\ node # "RAISED"
    /\ node = "END" => "final_report" \in DOMAIN state
    /\ node # "END" => ENABLED Next

\* C2: the stages run in the fixed order gather, clean, score, extract, report,
\* each at most once and each only after its predecessor returned: the nodes
\* invoked so far are a prefix of that order, the stage being run is the last of
\* them, a finished run invoked all five, and the state holds the output of
\* exactly the stages that have returned.
C2_FixedStageOrder ==
    /\ IsPrefix(trace, StageOrder)
    /\ node \in Nodes => trace # <<>> /\ trace[Len(trace)] = node
    /\ Terminated => trace = StageOrder
    /\ \A k \in 1..Len(StageOrder) :
         StageKey[k] \in DOMAIN state <=> Returned(StageOrder[k])

C2_Witness == node = "END" /\ trace = StageOrder /\ Len(cleaned_articles) > 0

\* C3: once stage 3 has returned there are as many score entries as cleaned
\* articles and the i-th entry is about the i-th cleaned article, whether the
\* model call parsed, did not parse or raised.
C3_OneScorePerArticle ==
    Returned("evaluate_trust") =>
        /\ Len(trustworthiness_scores) = Len(cleaned_articles)
        /\ \A k \in 1..Len(trustworthiness_scores) :
             /\ k <= Len(cleaned_articles)
             /\ trustworthiness_scores[k]["article"] = cleaned_articles[k]["title"]
             /\ "url" \in DOMAIN trustworthiness_scores[k]
                  => trustworthiness_scores[k]["url"] = cleaned_articles[k]["url"]

C3_Witness ==
    /\ Returned("evaluate_trust")
    /\ Len(cleaned_articles) >= 2
    /\ \E k \in 1..Len(calls["evaluate_trust"]) : calls["evaluate_trust"][k].raised

\* C4: every score entry of stage 3 has a score that is a number in [0, 10]:
\* 7.0 when the reply is no JSON, 5.0 when the call raised, in range when the
\* reply parsed.
C4_ScoreInRange ==
    Returned("evaluate_trust") =>
        \A k \in 1..Len(trustworthiness_scores) :
            LET evaluation == trustworthiness_scores[k]["evaluation"]
                response == calls["evaluate_trust"][k]
            IN /\ evaluation.type = "dict"
               /\ "score" \in DOMAIN evaluation.value
               /\ evaluation.value["score"] \in 0..100
               /\ response.raised => evaluation.value["score"] = 50
               /\ (~response.raised /\ json_loads(response.content).type = "JSONDecodeError")
                    => evaluation.value["score"] = 70

\* C5: once stage 2 has returned, cleaned_articles is no longer than
\* min(8, len(raw_articles)) and its articles are, in order, among the first 8
\* raw articles.
C5_CleanedWithinFirstEight ==
    Returned("clean_content") =>
        /\ Len(cleaned_articles) <= Min(MaxArticles, Len(raw_articles))
        /\ IsSubsequence([k \in 1..Len(cleaned_articles) |-> cleaned_articles[k]["url"]],
                         [k \in 1..Min(MaxArticles, Len(raw_articles)) |->
                             raw_articles[k]["link"]])

C5_Witness ==
    /\ Returned("clean_content")
    /\ Len(raw_articles) > MaxArticles
    /\ Len(cleaned_articles) = MaxArticles - 1

\* C6: once stage 1 has returned with a non-empty source list, raw_articles has
\* at most 5 stubs per source, and the stubs come source by source in the order
\* of the list.
C6_FiveStubsPerSource ==
    (Returned("gather_sources") /\ sources # <<>>) =>
        /\ Len(raw_articles) <= PerSourceCap * Len(sources)
        /\ InSourceBlocks([k \in 1..Len(raw_articles) |-> raw_articles[k]["source"]],
                          sources, PerSourceCap)

C6_Witness ==
    /\ Returned("gather_sources")
    /\ Len(sources) >= 2
    /\ Len(raw_articles) = PerSourceCap * Len(sources)
    /\ \E k \in 1..Len(sources) : calls["gather_sources"][k].n > PerSourceCap

\* C7: stage 5 run on no facts and no scores does not raise, leaves a
\* non-empty report, and gives the model the placeholders "No facts extracted"
\* and "No scores available" as its two blocks.
C7_PlaceholderBlocks ==
    (Terminated /\ extracted_facts = <<>> /\ trustworthiness_scores = <<>>) =>
        /\ node = "END"
        /\ final_report # ""
        /\ prompts = <<[facts |-> "No facts extracted", scores |-> "No scores available"]>>

\* C8: final_report is non-empty exactly when stage 5 has returned.
C8_ReportIffStageFive ==
    final_report # "" <=> Returned("generate_report")

\* C9: a finished run over one source with three stubs, the page of the second
\* of which could not be fetched, has at most 2 cleaned articles, a score per
\* cleaned article, a non-empty report and an error that holds the url of the
\* second stub.
C9_EndToEnd ==
    (/\ node = "END"
     /\ Len(sources) = 1
     /\ Len(raw_articles) = 3
     /\ ~calls["clean_content"][2].page.ok) =>
        /\ Len(cleaned_articles) <= 2
        /\ Len(trustworthiness_scores) = Len(cleaned_articles)
        /\ final_report # ""
        /\ \E k \in 1..Len(errors) : Mentions(errors[k], raw_articles[2]["link"])

\* C10: errors only grows at its end: in every step of a run of main.py's
\* pipeline the errors before the step are a prefix of the errors after it.
C10_ErrorsAppendOnly == [][IsPrefix(errors, errors')]_vars

C10_Witness ==
    /\ node = "END"
    /\ Len(errors) = 2
    /\ Mentions(errors[1], "Request error for ")
    /\ Mentions(errors[2], "Analysis error for ")

MainOrder == <<"scrape", "analyze", "report">>

\* C11: main() returns 0 exactly when the pipeline ran all its nodes, whatever
\* failed in scraping, analysis, report generation or pdf rendering, and returns
\* non-zero only when the credential was missing, before any node had run.
C11_ExitStatus ==
    /\ exit_status # -1 <=> node = "EXIT"
    /\ node = "EXIT" =>
        /\ exit_status = 0 <=> trace = MainOrder
        /\ exit_status # 0 =>
             /\ trace = <<>>
             /\ calls["load_environment"] = ""
             /\ "scraped_content" \notin DOMAIN state

C11_Witness ==
    /\ node = "EXIT"
    /\ exit_status = 0
    /\ Len(errors) = 2
    /\ calls["generate_pdf_report"].filename = "None"

\* the processed articles whose cleaning call was made and raised
CleaningRaised ==
    {k \in 1..Len(Get(calls, "clean_content", <<>>)) :
        /\ calls["clean_content"][k].response.raised
        /\ \E j \in 1..Len(cleaning_calls) : cleaning_calls[j] = raw_articles[k]["link"]}

\* C12 as claimed: an article whose cleaning call raised is not in
\* cleaned_articles, neither cleaned nor with its original text.
C12_CleaningFailureDrops ==
    Returned("clean_content") =>
        \A k \in CleaningRaised :
            \A j \in 1..Len(cleaned_articles) :
                cleaned_articles[j]["url"] # raw_articles[k]["link"]

\* C12, amended: an article whose cleaning call raised is kept in
\* cleaned_articles with the text the page fetch returned, uncleaned.
C12_CleaningFailureKeepsOriginal ==
    Returned("clean_content") =>
        \A k \in CleaningRaised :
            \E j \in 1..Len(cleaned_articles) :
                /\ cleaned_articles[j]["url"] = raw_articles[k]["link"]
                /\ cleaned_articles[j]["text"] =
                       [origin |-> "page", len |-> calls["clean_content"][k].page.len]

C12_Witness ==
    /\ Returned("clean_content")
    /\ CleaningRaised # {}
    /\ Len(cleaned_articles) >= 2

\* the positions in the source list whose fetch failed
FailedSources ==
    {k \in 1..Len(Get(calls, "gather_sources", <<>>)) : ~calls["gather_sources"][k].ok}

\* C13: after stage 1, a source whose fetch failed has no stub in raw_articles
\* and an entry naming it in the state's errors, and every stub of a later
\* source whose fetch succeeded is in raw_articles.
C13_FetchFailureRecorded ==
    Returned("gather_sources") =>
        \A k \in FailedSources :
            /\ \A i \in 1..Len(raw_articles) :
                   raw_articles[i]["source"] = sources[k] =>
                       \E j \in 1..Len(sources) :
                           sources[j] = sources[k] /\ calls["gather_sources"][j].ok
            /\ \E e \in 1..Len(errors) : Mentions(errors[e], sources[k])
            /\ \A j \in (k + 1)..Len(sources) :
                   LET stubs == Stubs(sources[j],
                                      Entries(sources[j], calls["gather_sources"][j]))
                   IN \A a \in 1..Len(stubs) :
                          \E i \in 1..Len(raw_articles) : raw_articles[i] = stubs[a]

\* the same without the error entry: what stage 1 does keep of it
C13_FetchFailureSkipsSource ==
    Returned("gather_sources") =>
        \A k \in FailedSources :
            /\ \A i \in 1..Len(raw_articles) :
                   raw_articles[i]["source"] = sources[k] =>
                       \E j \in 1..Len(sources) :
                           sources[j] = sources[k] /\ calls["gather_sources"][j].ok
            /\ \A j \in (k + 1)..Len(sources) :
                   LET stubs == Stubs(sources[j],
                                      Entries(sources[j], calls["gather_sources"][j]))
                   IN \A a \in 1..Len(stubs) :
                          \E i \in 1..Len(raw_articles) : raw_articles[i] = stubs[a]

\* a candidate of stage 2 that has no link, whose page fetch failed, or whose
\* fetched text is shorter than the threshold
Dropped(article, outcome) ==
    \/ article["link"] = ""
    \/ ~outcome.page.ok
    \/ outcome.page.len < MinTextLen

RECURSIVE LinksNotDropped(_, _)
\* the links of the other candidates, in the order of the candidates
LinksNotDropped(articles, outcomes) ==
    IF articles = <<>> THEN <<>>
    ELSE (IF Dropped(Head(articles), Head(outcomes)) THEN <<>>
          ELSE <<Head(articles)["link"]>>)
         \o LinksNotDropped(Tail(articles), Tail(outcomes))

\* C14: after stage 2, the cleaned articles and the cleaning calls both come,
\* in order, from the candidates that have a link, a fetched page and a text of
\* at least 200 characters only; each candidate was fetched once, and errors
\* has no entry.
C14_SilentDrop ==
    Returned("clean_content") =>
        LET articles == articles_to_process(raw_articles)
            kept == LinksNotDropped(articles, calls["clean_content"])
        IN /\ IsSubsequence([j \in 1..Len(cleaned_articles) |-> cleaned_articles[j]["url"]],
                            kept)
           /\ IsSubsequence(cleaning_calls, kept)
           /\ Len(calls["clean_content"]) = Len(articles)
           /\ errors = <<>>

C14_Witness ==
    /\ Returned("clean_content")
    /\ \E k \in 1..Len(calls["clean_content"]) :
           /\ calls["clean_content"][k].page.ok
           /\ calls["clean_content"][k].page.len < MinTextLen
    /\ Len(cleaned_articles) = 2
    /\ Len(cleaning_calls) = 2

\* the other two cases of C14 happen as well
C14_NoLinkReached ==
    /\ Returned("clean_content")
    /\ \E k \in 1..Len(calls["clean_content"]) : raw_articles[k]["link"] = ""
    /\ Len(cleaning_calls) = 2

C14_FetchFailureReached ==
    /\ Returned("clean_content")
    /\ \E k \in 1..Len(calls["clean_content"]) : ~calls["clean_content"][k].page.ok
    /\ Len(cleaning_calls) = 2

\* C15: when stage 1 runs on a state whose sources field is absent or is the
\* empty list, it fetches the feeds of the default list and writes the default
\* list back as sources.
C15_DefaultWhenAbsentOrEmpty ==
    [][(node = "gather_sources" /\ Get(state, "sources", <<>>) = <<>>) =>
          /\ sources' = default_sources
          /\ Len(calls'["gather_sources"]) = Len(default_sources)]_vars

\* the absent half of it
C15_DefaultWhenAbsent ==
    [][(node = "gather_sources" /\ "sources" \notin DOMAIN state) =>
          /\ sources' = default_sources
          /\ Len(calls'["gather_sources"]) = Len(default_sources)]_vars

RECURSIVE Extracted(_, _)
\* the positions from k on in cleaned_articles whose fact-extraction call
\* succeeded, in order
Extracted(responses, k) ==
    IF k > Len(responses) THEN <<>>
    ELSE (IF responses[k].raised THEN <<>> ELSE <<k>>) \o Extracted(responses, k + 1)

\* C16: after stage 4, extracted_facts holds one entry for each article whose
\* model call succeeded, in the order of cleaned_articles, and nothing for the
\* others; it is no longer than cleaned_articles and errors has no entry.
C16_FailedExtractionOmitted ==
    Returned("extract_facts") =>
        LET succeeded == Extracted(calls["extract_facts"], 1)
        IN
        /\ Len(calls["extract_facts"]) = Len(cleaned_articles)
        /\ Len(extracted_facts) = Len(succeeded)
        /\ \A i \in 1..Len(extracted_facts) :
               /\ extracted_facts[i]["source"] = cleaned_articles[succeeded[i]]["title"]
               /\ extracted_facts[i]["url"] = cleaned_articles[succeeded[i]]["url"]
               /\ extracted_facts[i]["facts"] = calls["extract_facts"][succeeded[i]].content
        /\ Len(extracted_facts) <= Len(cleaned_articles)
        /\ errors = <<>>

C16_Witness ==
    /\ Returned("extract_facts")
    /\ Len(cleaned_articles) >= 3
    /\ calls["extract_facts"][2].raised
    /\ Len(extracted_facts) = Len(cleaned_articles) - 1
    /\ extracted_facts[2]["source"] = cleaned_articles[3]["title"]

\* the first position from `from` on at which text holds part; 0 if there is none
FindFrom(text, part, from) ==
    LET hits == {a \in from..(Len(text) - Len(part) + 1) :
                    SubSeq(text, a, a + Len(part) - 1) = part}
    IN IF hits = {} THEN 0 ELSE CHOOSE a \in hits : \A b \in hits : a <= b

RECURSIVE HoldsInOrder(_, _, _)
\* text holds the parts one after the other, from position `from` on
HoldsInOrder(text, parts, from) ==
    IF parts = <<>> THEN TRUE
    ELSE LET a == FindFrom(text, Head(parts), from)
         IN a # 0 /\ HoldsInOrder(text, Tail(parts), a + Len(Head(parts)))

RECURSIVE TitlesAndTexts(_)
\* title, text, title, text, ... of the extracted facts
TitlesAndTexts(facts) ==
    IF facts = <<>> THEN <<>>
    ELSE <<Head(facts)["source"], Head(facts)["facts"]>> \o TitlesAndTexts(Tail(facts))

\* the report-generation call of stage 5 was made and raised
ReportCallFailed ==
    /\ Get(calls, "generate_report", <<>>) # <<>>
    /\ calls["generate_report"][1].raised

\* C17: when the report-generation call of stage 5 raises, the stage returns
\* and final_report is the error message, then the raw facts block, which holds
\* the title and the text of every extracted fact, in order.
C17_DegradedReport ==
    ReportCallFailed =>
        LET message == "Error generating report: " \o calls["generate_report"][1].content
        IN /\ node = "END"
           /\ Returned("generate_report")
           /\ IsPrefix(message, final_report)
           /\ HoldsInOrder(final_report,
                           <<"Raw facts:">> \o TitlesAndTexts(extracted_facts),
                           Len(message) + 1)

C17_Witness ==
    /\ ReportCallFailed
    /\ node = "END"
    /\ Len(extracted_facts) >= 2
====
